---- MODULE Spec2Model ----
(***************************************************************************)
(* Model of src/app/page.tsx: the Home component of the watch face.        *)
(*                                                                         *)
(* State: the two useState cells (gmtOffset, moonImagesLoaded), the moon   *)
(* image loader's closure (images, loadedCount, the fetch promises and the *)
(* blob URLs they create), and the draw effect's closure (the captured     *)
(* gmtOffset / moonImagesLoaded, the requestAnimationFrame handle id and   *)
(* the browser's list of pending animation-frame callbacks).               *)
(*                                                                         *)
(* Real-valued quantities are kept exact on integer grids: days are        *)
(* counted in 1e-5 day units (so LUNAR_CYCLE 29.53059 is 2953059 and the   *)
(* phase thresholds 1.84 .. 23.99 are 184000 .. 2399000), clock values in  *)
(* milliseconds (so the 24 of "% 24" is 86400000).                         *)
(***************************************************************************)
EXTENDS Integers, FiniteSets, Sequences, TLC

\* ---------------------------------------------------------------- bounds
MaxKeys == 2          \* arrow-key events per run
MaxFrames == 4        \* animation frames requested per run
MaxFailures == 1      \* failed fetches / decodes per run (specification Spec)
MaxKeyRun == 26       \* arrow-key events per run (specification SpecKeys)
MaxGmt == 26          \* |gmtOffset| drawn by SpecClock
MaxLunarSteps == 60   \* sample instants on each side of the epoch (SpecMoon)
MaxAgeSteps == 40     \* evenly spaced sample ages within one lunar cycle (SpecPhase)
MaxLayerFrames == 2   \* frames drawn layer by layer (SpecLayers)
MaxHandSteps == 60    \* evenly spaced sample instants within one day (SpecHands)
MaxSiderealSteps == 40 \* evenly spaced sample instants on each side of the Unix epoch (SpecSidereal)
MaxRenderSteps == 40  \* evenly spaced sample instants after the moon reference epoch (SpecRender)

\* ------------------------------------------------------ program constants
NumFiles == 8
LUNAR_CYCLE == 2953059
DayMs == 86400000

Slots == 0 .. (NumFiles - 1)
None == "none"

\* JavaScript's % : truncated remainder, the result has the dividend's sign.
JsRem(a, b) == IF a >= 0 THEN a % b ELSE -((-a) % b)

VARIABLES
  phase,             \* "init" (rendered, effects not yet run), "mounted", "unmounted"
  surface,           \* "ok", "nocanvas" (canvasRef.current is null), "noctx" (getContext gives null)
  gmtOffset,         \* useState(0)
  moonImagesLoaded,  \* useState(false)
  keys,              \* history: ArrowRight / ArrowLeft events handled
  fetched,           \* per file: "pending", "ok" (blob URL created), "failed" (caught, null)
  blob,              \* per file: "none", "live", "revoked"
  urlsResolved,      \* the Promise.all(...).then callback has run
  images,            \* the loader's images array: "absent", "loading", "complete", "error"
  loadedCount,       \* the loader's loadedCount
  chain,             \* number of runs of the draw effect
  effOffset,         \* gmtOffset captured by the current draw effect (its dependency)
  effLoaded,         \* moonImagesLoaded captured by the current draw effect
  id,                \* the current draw effect's id variable
  nextRaf,           \* next handle requestAnimationFrame returns
  pending,           \* the browser's pending animation-frame callbacks
  lastFrame,         \* what the last drawWatch() drew
  clock,             \* SpecClock: a frozen clock reading and the GMT hands drawn for it
  moon,              \* SpecMoon: an instant and the moon ages drawn for it
  lookup,            \* SpecPhase: moon ages and the phase indices looked up for them
  layers,            \* SpecLayers: the frame being drawn, layer by layer
  hands,             \* SpecHands: an instant and the hand angles of two frames a second apart
  sidereal,          \* SpecSidereal: a timestamp and the sidereal angle computed for it
  render             \* SpecRender: an instant and the drawing operations of two frames at it

vars == <<phase, gmtOffset, moonImagesLoaded, keys, fetched, blob, urlsResolved,
          images, loadedCount, chain, effOffset, effLoaded, id, nextRaf, pending,
          lastFrame, clock, moon, surface, lookup, layers, hands, sidereal, render>>

loaderVars == <<fetched, blob, urlsResolved, images, loadedCount>>
loopVars == <<chain, effOffset, effLoaded, id, nextRaf, pending, lastFrame>>
pureVars == <<clock, moon, lookup, layers, hands, sidereal, render>>
componentVars == <<phase, surface, gmtOffset, moonImagesLoaded, keys, loaderVars, loopVars>>

\* ------------------------------------------------------------ moon phase
\* Variant of MoonAge without the shift into the non-negative range.
MoonAgeTruncated(days) == JsRem(days, LUNAR_CYCLE)

\* drawMoon: days since the reference new moon, reduced into one lunar cycle.
MoonAge(days) == JsRem(JsRem(days, LUNAR_CYCLE) + LUNAR_CYCLE, LUNAR_CYCLE)

\* Variant of getMoonPhaseImage whose comparisons include the threshold.
getMoonPhaseImageInclusive(moonAge) ==
  IF moonAge <= 184000 THEN 0
  ELSE IF moonAge <= 738000 THEN 1
  ELSE IF moonAge <= 923000 THEN 2
  ELSE IF moonAge <= 1477000 THEN 3
  ELSE IF moonAge <= 1661000 THEN 4
  ELSE IF moonAge <= 2215000 THEN 5
  ELSE IF moonAge <= 2399000 THEN 6
  ELSE 7

getMoonPhaseImage(moonAge) ==
  IF moonAge < 184000 THEN 0
  ELSE IF moonAge < 738000 THEN 1
  ELSE IF moonAge < 923000 THEN 2
  ELSE IF moonAge < 1477000 THEN 3
  ELSE IF moonAge < 1661000 THEN 4
  ELSE IF moonAge < 2215000 THEN 5
  ELSE IF moonAge < 2399000 THEN 6
  ELSE 7

\* The loader's file list; slot i of the images array holds file i + 1 of it.
moonPhaseFiles ==
  <<"New_Moon.svg", "Waxing_Crescent.svg", "First_Quarter.svg", "Waxing_Gibbous.svg",
    "Full_Moon.svg", "Waning_Gibbous.svg", "Last_Quarter.svg", "Waning_Crescent.svg">>

\* getMoonPhaseIndex (not called by drawMoon): the nearest eighth of the cycle,
\* Math.round((phase / LUNAR_CYCLE) * 8) % 8.
getMoonPhaseIndex(days) == ((16 * MoonAge(days) + LUNAR_CYCLE) \div (2 * LUNAR_CYCLE)) % 8

\* Variant of the selection that calls getMoonPhaseIndex instead.
PhaseIndexAtRounded(days) == getMoonPhaseIndex(days)

\* drawMoon: phaseIndex = getMoonPhaseImage(moonAge), the slot read from the ref.
PhaseIndexAt(days) == getMoonPhaseImage(MoonAge(days))

\* moonPhaseImagesRef.current: [] until the loader assigns its images array.
moonPhaseImagesRef == IF urlsResolved THEN images ELSE [i \in Slots |-> "absent"]

\* Array.length of a sparse array: one past the highest index assigned.
ArrayLength(arr) ==
  IF \A i \in Slots : arr[i] = "absent" THEN 0
  ELSE 1 + (CHOOSE i \in Slots : arr[i] # "absent" /\ \A j \in Slots : arr[j] # "absent" => j <= i)

\* HTMLImageElement.complete: true once the request is finished, loaded or broken.
ImgComplete(img) == img \in {"complete", "error"}

\* Variant of drawMoon that tests only moonPhaseImagesRef.current.length, not the flag.
drawMoonNoFlag(loadedFlag, days) ==
  IF ArrayLength(moonPhaseImagesRef) > 0
  THEN LET img == moonPhaseImagesRef[PhaseIndexAt(days)]
       IN  IF img # "absent" /\ ImgComplete(img)
           THEN (IF img = "complete" THEN "image" ELSE "throws")
           ELSE "nothing"
  ELSE "fallback"

\* drawMoon's choice for the aperture, with the flag the closure captured.
\*   "image"    ctx.drawImage of the selected phase image
\*   "fallback" the flat fill
\*   "throws"   ctx.drawImage of a broken image
\*   "nothing"  neither (selected handle missing or not complete)
drawMoon(loadedFlag, days) ==
  IF loadedFlag /\ ArrayLength(moonPhaseImagesRef) > 0
  THEN LET img == moonPhaseImagesRef[PhaseIndexAt(days)]
       IN  IF img # "absent" /\ ImgComplete(img)
           THEN (IF img = "complete" THEN "image" ELSE "throws")
           ELSE "nothing"
  ELSE "fallback"

\* Instants (1e-5 days since the reference epoch) at which frames are drawn.
FrameDates == {0, 1476000}

\* drawWatch() as run by the draw effect that captured (off, loadedFlag).
\* Without a 2D context drawWatch returns at once and nothing is drawn.
drawWatch(c, off, loadedFlag, days) ==
  IF surface # "ok" THEN lastFrame
  ELSE [chain  |-> c,
        off    |-> off,
        index  |-> PhaseIndexAt(days),
        moon   |-> drawMoon(loadedFlag, days),
        flag   |-> moonImagesLoaded,
        handle |-> moonPhaseImagesRef[PhaseIndexAt(days)]]

\* ------------------------------------------------------------ draw loop
cancelAnimationFrame(pend, handle) == {p \in pend : p.raf # handle}

\* Variant of the cleanup that cancels nothing.
DrawEffectCleanupMissing(pend, handle) == pend

\* Variant of the cleanup that holds the handle of the frame before the last.
DrawEffectCleanupStale(pend, handle) == cancelAnimationFrame(pend, handle - 1)

\* The draw effect's cleanup: () => cancelAnimationFrame(id).
DrawEffectCleanup(pend, handle) == cancelAnimationFrame(pend, handle)

Callback(c, off, loadedFlag) == [raf |-> nextRaf, chain |-> c, off |-> off, loaded |-> loadedFlag]

\* animate() called from the effect body: one frame, then the next one requested.
StartLoop(pend, off, days) ==
  /\ effLoaded' = moonImagesLoaded
  /\ lastFrame' = drawWatch(chain + 1, off, moonImagesLoaded, days)
  /\ pending' = pend \cup {Callback(chain + 1, off, moonImagesLoaded)}
  /\ id' = nextRaf
  /\ nextRaf' = nextRaf + 1

\* Variant of the effect body without the "if (!canvas) return" / "if (!ctx) return" guards.
HasSurfaceUnguarded == TRUE

\* The effect body's guards: canvasRef.current and canvas.getContext("2d") are both there.
HasSurface == surface = "ok"

\* The draw effect body, run in a render whose gmtOffset is off: returns early
\* without a canvas or a 2D context, otherwise builds the closures and calls
\* animate() once.
RunDrawEffect(pend, off, days) ==
  /\ chain' = chain + 1
  /\ effOffset' = off
  /\ IF HasSurface
     THEN StartLoop(pend, off, days)
     ELSE UNCHANGED <<effLoaded, lastFrame, pending, id, nextRaf>>

\* First commit: the three effects run (key listener, loader, draw loop).
Mount ==
  /\ phase = "init"
  /\ phase' = "mounted"
  /\ \E d \in FrameDates : RunDrawEffect(pending, gmtOffset, d)
  /\ UNCHANGED <<surface, gmtOffset, moonImagesLoaded, keys, loaderVars, pureVars>>

\* A pending animation-frame callback fires: animate() of the chain that requested it.
Animate ==
  /\ nextRaf <= MaxFrames
  /\ \E p \in pending, d \in FrameDates :
       /\ lastFrame' = drawWatch(p.chain, p.off, p.loaded, d)
       /\ pending' = (pending \ {p}) \cup {Callback(p.chain, p.off, p.loaded)}
       /\ id' = IF p.chain = chain THEN nextRaf ELSE id
  /\ nextRaf' = nextRaf + 1
  /\ UNCHANGED <<phase, surface, gmtOffset, moonImagesLoaded, keys, loaderVars, chain,
                 effOffset, effLoaded, pureVars>>

\* Variant of handleKey that decrements on every key but ArrowRight.
handleKeyElse(key, p) == IF key = "ArrowRight" THEN p + 1 ELSE p - 1

\* handleKey
handleKey(key, p) ==
  IF key = "ArrowRight" THEN p + 1
  ELSE IF key = "ArrowLeft" THEN p - 1
  ELSE p

\* Variant of the key event whose state update re-runs no effect (a draw
\* effect without gmtOffset among its dependencies).
KeyDownNoRerun(key) ==
  /\ phase = "mounted"
  /\ gmtOffset' = handleKey(key, gmtOffset)
  /\ keys' = [right |-> keys.right + (IF key = "ArrowRight" THEN 1 ELSE 0),
              left  |-> keys.left + (IF key = "ArrowLeft" THEN 1 ELSE 0)]
  /\ UNCHANGED <<phase, surface, moonImagesLoaded, loaderVars, loopVars, pureVars>>

\* A keydown event on window. handleKey's state update is flushed before the
\* event's task ends, and with it the draw effect, whose dependency
\* [gmtOffset] changed: cleanup of the old effect, then the new effect body.
\* No animation frame runs between the update and the effect. A key that is
\* no arrow updates no state and re-runs nothing.
KeyDown(key) ==
  /\ phase = "mounted"
  /\ gmtOffset' = handleKey(key, gmtOffset)
  /\ keys' = [right |-> keys.right + (IF key = "ArrowRight" THEN 1 ELSE 0),
              left  |-> keys.left + (IF key = "ArrowLeft" THEN 1 ELSE 0)]
  /\ IF handleKey(key, gmtOffset) # gmtOffset
     THEN \E d \in FrameDates :
            RunDrawEffect(DrawEffectCleanup(pending, id), handleKey(key, gmtOffset), d)
     ELSE UNCHANGED loopVars
  /\ UNCHANGED <<phase, surface, moonImagesLoaded, loaderVars, pureVars>>

\* ------------------------------------------------------------ loader
FetchOk(i) ==
  /\ phase # "init"
  /\ fetched[i] = "pending"
  /\ fetched' = [fetched EXCEPT ![i] = "ok"]
  /\ blob' = [blob EXCEPT ![i] = "live"]
  /\ UNCHANGED <<phase, surface, gmtOffset, moonImagesLoaded, keys, urlsResolved, images,
                 loadedCount, loopVars, pureVars>>

FetchFail(i) ==
  /\ phase # "init"
  /\ fetched[i] = "pending"
  /\ fetched' = [fetched EXCEPT ![i] = "failed"]
  /\ UNCHANGED <<phase, surface, gmtOffset, moonImagesLoaded, keys, blob, urlsResolved, images,
                 loadedCount, loopVars, pureVars>>

\* Promise.all(...).then((urls) => ...): one Image per non-null url.
UrlsResolved ==
  /\ ~urlsResolved
  /\ \A i \in Slots : fetched[i] # "pending"
  /\ urlsResolved' = TRUE
  /\ images' = [i \in Slots |-> IF fetched[i] = "ok" THEN "loading" ELSE "absent"]
  /\ UNCHANGED <<phase, surface, gmtOffset, moonImagesLoaded, keys, fetched, blob, loadedCount,
                 loopVars, pureVars>>

\* Variant of the readiness test that is one image short.
SetLoadedOffByOne(count) ==
  IF count >= NumFiles - 1 /\ phase = "mounted" THEN TRUE ELSE moonImagesLoaded

\* setMoonImagesLoaded(true): a state update of an unmounted component is dropped.
SetLoaded(count) ==
  IF count = NumFiles /\ phase = "mounted" THEN TRUE ELSE moonImagesLoaded

\* img.onload
ImgLoad(i) ==
  /\ images[i] = "loading"
  /\ images' = [images EXCEPT ![i] = "complete"]
  /\ loadedCount' = loadedCount + 1
  /\ moonImagesLoaded' = SetLoaded(loadedCount + 1)
  /\ UNCHANGED <<phase, surface, gmtOffset, keys, fetched, blob, urlsResolved, loopVars, pureVars>>

\* Variant of img.onerror that counts the image as loaded.
ImgErrorCounted(i) ==
  /\ images[i] = "loading"
  /\ images' = [images EXCEPT ![i] = "error"]
  /\ loadedCount' = loadedCount + 1
  /\ moonImagesLoaded' = SetLoaded(loadedCount + 1)
  /\ UNCHANGED <<phase, surface, gmtOffset, keys, fetched, blob, urlsResolved, loopVars, pureVars>>

\* img.onerror
ImgError(i) ==
  /\ images[i] = "loading"
  /\ images' = [images EXCEPT ![i] = "error"]
  /\ UNCHANGED <<phase, surface, gmtOffset, moonImagesLoaded, keys, fetched, blob, urlsResolved,
                 loadedCount, loopVars, pureVars>>

\* The loader effect's cleanup: revoke the src of every image in the images array.
LoaderCleanup(b) ==
  [i \in Slots |-> IF images[i] # "absent" /\ b[i] = "live" THEN "revoked" ELSE b[i]]

\* Unmount: every effect's cleanup runs.
Unmount ==
  /\ phase = "mounted"
  /\ phase' = "unmounted"
  /\ blob' = LoaderCleanup(blob)
  /\ pending' = DrawEffectCleanup(pending, id)
  /\ UNCHANGED <<surface, gmtOffset, moonImagesLoaded, keys, fetched, urlsResolved, images,
                 loadedCount, chain, effOffset, effLoaded, id, nextRaf, lastFrame, pureVars>>

\* ------------------------------------------------------------ GMT hand
\* drawWatch: g = (now.getHours() + gmtOffset + m / 60) % 24, in milliseconds.
GmtHour(now, off) ==
  JsRem(now.hours * 3600000 + off * 3600000 + now.minutes * 60000
        + now.seconds * 1000 + now.ms, DayMs)

\* A frame at the frozen instant: the value whose multiple (g * PI) / 12 goes to drawGMTHand.
ClockFrame ==
  /\ clock.drawn = 0
  /\ clock' = [clock EXCEPT !.g = GmtHour(clock, gmtOffset), !.drawn = 1]
  /\ UNCHANGED <<componentVars, moon, lookup, layers, hands, sidereal, render>>

\* Twenty-four ArrowRight events, then a frame at the same instant.
ClockFrame24 ==
  /\ clock.drawn = 1
  /\ gmtOffset' = gmtOffset + 24
  /\ clock' = [clock EXCEPT !.g24 = GmtHour(clock, gmtOffset + 24), !.drawn = 2]
  /\ UNCHANGED <<phase, surface, moonImagesLoaded, keys, loaderVars, loopVars,
                 moon, lookup, layers, hands, sidereal, render>>

\* ------------------------------------------------------------ moon age
\* A frame at moon.date: the moonAge drawMoon computes and the slot it selects.
MoonFrame ==
  /\ moon.frames = 0
  /\ moon' = [moon EXCEPT !.age = MoonAge(moon.date), !.index = PhaseIndexAt(moon.date),
                          !.frames = 1]
  /\ UNCHANGED <<componentVars, clock, lookup, layers, hands, sidereal, render>>

\* One lunar period later, the next frame.
MoonFrameNextCycle ==
  /\ moon.frames = 1
  /\ moon' = [date |-> moon.date + LUNAR_CYCLE, age |-> MoonAge(moon.date + LUNAR_CYCLE),
              index |-> PhaseIndexAt(moon.date + LUNAR_CYCLE), prev |-> moon.age, frames |-> 2]
  /\ UNCHANGED <<componentVars, clock, lookup, layers, hands, sidereal, render>>

\* ------------------------------------------------------------ phase lookup
\* getMoonPhaseImage applied to lookup.age.
PhaseLookup ==
  /\ lookup.done = 0
  /\ lookup' = [lookup EXCEPT !.index = getMoonPhaseImage(lookup.age), !.done = 1]
  /\ UNCHANGED <<componentVars, clock, moon, layers, hands, sidereal, render>>

\* getMoonPhaseImage applied to an age that is not smaller.
PhaseLookupLater(age) ==
  /\ lookup.done = 1
  /\ age >= lookup.age
  /\ lookup' = [lookup EXCEPT !.later = age, !.laterIndex = getMoonPhaseImage(age), !.done = 2]
  /\ UNCHANGED <<componentVars, clock, moon, layers, hands, sidereal, render>>

\* ------------------------------------------------------------ frame composition
\* Variant of drawWatch that draws the case overlay before the hands.
drawWatchLayersCaseFirst ==
  <<"clearRect", "dial", "drawMinuteTrack", "drawBatons", "numerals", "brandText",
    "drawSwissMade", "drawMoon", "drawSidereal", "drawDate", "drawCase",
    "drawGMTHand", "drawBreguetHand:hour", "drawBreguetHand:minute", "drawSecondsHand",
    "centerPin", "drawCrystal">>

\* Variant of drawWatch that draws the Swiss-made marking after the date window.
drawWatchLayersSwissLate ==
  <<"clearRect", "dial", "drawMinuteTrack", "drawBatons", "numerals", "brandText",
    "drawMoon", "drawSidereal", "drawDate", "drawSwissMade",
    "drawGMTHand", "drawBreguetHand:hour", "drawBreguetHand:minute", "drawSecondsHand",
    "centerPin", "drawCase", "drawCrystal">>

\* Variant of drawWatch that calls drawGuilloche after the dial background.
drawWatchLayersGuilloche ==
  <<"clearRect", "dial", "drawGuilloche", "drawMinuteTrack", "drawBatons", "numerals",
    "brandText", "drawSwissMade", "drawMoon", "drawSidereal", "drawDate",
    "drawGMTHand", "drawBreguetHand:hour", "drawBreguetHand:minute", "drawSecondsHand",
    "centerPin", "drawCase", "drawCrystal">>

\* The drawing steps of drawWatch, in the order of its statements.
drawWatchLayers ==
  <<"clearRect", "dial", "drawMinuteTrack", "drawBatons", "numerals", "brandText",
    "drawSwissMade", "drawMoon", "drawSidereal", "drawDate",
    "drawGMTHand", "drawBreguetHand:hour", "drawBreguetHand:minute", "drawSecondsHand",
    "centerPin", "drawCase", "drawCrystal">>

\* The next drawing step of the frame in progress.
LayerStep ==
  /\ Len(layers.drawn) < Len(drawWatchLayers)
  /\ layers' = [layers EXCEPT !.drawn = Append(@, drawWatchLayers[Len(@) + 1])]
  /\ UNCHANGED <<componentVars, clock, moon, lookup, hands, sidereal, render>>

\* drawWatch has returned; the next animation frame starts a new drawWatch.
LayerNextFrame ==
  /\ Len(layers.drawn) = Len(drawWatchLayers)
  /\ layers.frame < MaxLayerFrames
  /\ \E d \in FrameDates :
       layers' = [layers EXCEPT !.frame = @ + 1, !.date = d, !.drawn = <<>>]
  /\ UNCHANGED <<componentVars, clock, moon, lookup, hands, sidereal, render>>

\* ------------------------------------------------------------ hand angles
\* Instants are milliseconds of local wall-clock time since a local midnight;
\* the Date getters reduce them to clock fields.
getMilliseconds(t) == t % 1000
getSeconds(t) == (t \div 1000) % 60
getMinutes(t) == (t \div 60000) % 60

\* s = seconds + ms / 1000, in milliseconds. drawSecondsHand gets s * PI / 30,
\* so one unit of s is 1/60000 of a turn.
SecondHand(t) == getSeconds(t) * 1000 + getMilliseconds(t)

\* The minute value without the carry of the seconds.
MinuteHandStepped(t) == getMinutes(t) * 60000

\* m = minutes + s / 60, in 1/60000 minute. drawBreguetHand gets m * PI / 30,
\* so one unit of m is 1/3600000 of a turn.
MinuteHand(t) == getMinutes(t) * 60000 + SecondHand(t)

\* A frame at the instant hands.t.
HandsFrame ==
  /\ hands.frames = 0
  /\ hands' = [hands EXCEPT !.second = SecondHand(hands.t), !.minute = MinuteHand(hands.t),
                            !.frames = 1]
  /\ UNCHANGED <<componentVars, clock, moon, lookup, layers, sidereal, render>>

\* A frame one second after the previous one.
HandsFrameOneSecondLater ==
  /\ hands.frames = 1
  /\ hands' = [t |-> hands.t + 1000,
               second |-> SecondHand(hands.t + 1000), minute |-> MinuteHand(hands.t + 1000),
               prevSecond |-> hands.second, prevMinute |-> hands.minute, frames |-> 2]
  /\ UNCHANGED <<componentVars, clock, moon, lookup, layers, sidereal, render>>

\* ------------------------------------------------------------ sidereal angle
\* Fixed-point grid, chosen so that every intermediate value fits a 32-bit
\* integer for instants a century on each side of the Unix epoch: time in
\* half days, degrees in 1/100 degree. On this grid 280.46061837 is 28046,
\* 360.98564736629 per day is 18049 per half day, the longitude -0.1278 is
\* -13 and 360 is 36000.

\* The normalisation with a bare remainder.
NormalizeDegreesBare(deg) == JsRem(deg, 36000)

\* ((x % 360) + 360) % 360, as applied to GMST and to LST.
NormalizeDegrees(deg) == JsRem(JsRem(deg, 36000) + 36000, 36000)

\* JD = getTime / 86400000 + 2440587.5 and D = JD - 2451545.0, in half days.
DaysSinceJ2000(halfDays) == (halfDays + 4881175) - 4903090

\* GMST, normalised.
GMST(halfDays) == NormalizeDegrees(28046 + 18049 * DaysSinceJ2000(halfDays))

\* LST = GMST + longitude, before its normalisation.
LSTRaw(halfDays) == GMST(halfDays) + (-13)

\* The returned angle (LST / 360) * PI * 2, in 1/36000 of a turn.
getSiderealAngle(halfDays) == NormalizeDegrees(LSTRaw(halfDays))

\* drawSidereal at the instant sidereal.halfDays.
SiderealFrame ==
  /\ sidereal.frames = 0
  /\ sidereal' = [sidereal EXCEPT !.raw = LSTRaw(sidereal.halfDays),
                                  !.angle = getSiderealAngle(sidereal.halfDays),
                                  !.frames = 1]
  /\ UNCHANGED <<componentVars, clock, moon, lookup, layers, hands, render>>

\* ------------------------------------------------------------ one frame's operations
\* Instants are milliseconds since the moon reference epoch, 2026-01-19 00:00
\* UTC (day 20472 of the Unix epoch), read as local time. Angles and the
\* arguments of Math.sin are in 1/1000 radian, 2 PI being 6283; values
\* between 0 and 1 are in 1/1000.

\* Math.sin, as the piecewise linear wave through its zeros and extremes.
SinMilli(x) ==
  LET p == x % 6283
  IN  IF p < 1571 THEN (p * 1000) \div 1571
      ELSE IF p < 4712 THEN ((3141 - p) * 1000) \div 1571
      ELSE ((p - 6283) * 1000) \div 1571

\* Math.sin(x) * 0.5 + 0.5
Wave(x) == SinMilli(x) \div 2 + 500

\* breathe = Math.sin(Date.now() / 3000) * 0.5 + 0.5
breathe(t) == Wave(t \div 3)

\* arTint = Math.sin(Date.now() / 5000) * 0.5 + 0.5
arTint(t) == Wave(t \div 5)

\* (sparkle - threshold) * gain where the sparkle is drawn, 0 where it is not.
Intensity(sparkle, threshold, gain) ==
  IF sparkle > threshold THEN (sparkle - threshold) * gain ELSE 0

\* A baton sparkle that also depends on the number of frames drawn so far.
BatonSparkleCarried(t, i) ==
  Intensity(Wave(t \div 4 + i * 1300 + render.frames * 1500), 880, 8)

\* Baton i: sparkle = Math.sin(time * 0.25 + i * 1.3) * 0.5 + 0.5, drawn above 0.88.
BatonSparkle(t, i) == Intensity(Wave(t \div 4 + i * 1300), 880, 8)

\* drawBreguetHand: sparkle1 and sparkle2, drawn above 0.85.
HandSparkle1(t, angle) == Intensity(Wave((t * 2) \div 5 + (angle * 37) \div 10), 850, 6)
HandSparkle2(t, angle) ==
  Intensity(Wave((t * 3) \div 10 + (angle * 51) \div 10 + 2500), 850, 6)

\* drawSecondsHand: sparkle, drawn above 0.88.
SecondsSparkle(t, angle) == Intensity(Wave(t \div 2 + (angle * 17) \div 10), 880, 8)

getHours(t) == (t \div 3600000) % 24
getDate(t) == 19 + t \div DayMs

\* The angles drawWatch passes to the hands: s * PI / 30, m * PI / 30,
\* h * PI / 6 with h = hours % 12 + m / 60, and g * PI / 12.
SecondAngle(t) == (SecondHand(t) * 6283) \div 60000
MinuteAngle(t) == ((MinuteHand(t) \div 100) * 6283) \div 36000
HourAngle(t) ==
  ((((getHours(t) % 12) * 3600000 + MinuteHand(t)) \div 1000) * 6283) \div 43200
GmtAngle(t, off) ==
  ((GmtHour([hours |-> getHours(t), minutes |-> getMinutes(t),
             seconds |-> getSeconds(t), ms |-> getMilliseconds(t)], off) \div 1000) * 6283)
     \div 86400

\* drawMoon's and drawSidereal's view of the instant.
MoonDays(t) == t \div 864
SiderealHalfDays(t) == 2 * 20472 + t \div 43200000

\* What a drawing step draws where the code branches on state: the moon.
LayerBranch(layer, t, loadedFlag) ==
  IF layer = "drawMoon" THEN drawMoon(loadedFlag, MoonDays(t)) ELSE "always"

\* The values a drawing step computes from the instant and the offset.
LayerArgs(layer, t, off) ==
  CASE layer = "drawBatons" -> [i \in 1 .. 12 |-> BatonSparkle(t, i - 1)]
    [] layer = "drawMoon" -> <<PhaseIndexAt(MoonDays(t))>>
    [] layer = "drawSidereal" -> <<getSiderealAngle(SiderealHalfDays(t)), breathe(t)>>
    [] layer = "drawDate" -> <<getDate(t)>>
    [] layer = "drawGMTHand" -> <<GmtAngle(t, off)>>
    [] layer = "drawBreguetHand:hour" ->
         <<HourAngle(t), HandSparkle1(t, HourAngle(t)), HandSparkle2(t, HourAngle(t))>>
    [] layer = "drawBreguetHand:minute" ->
         <<MinuteAngle(t), HandSparkle1(t, MinuteAngle(t)), HandSparkle2(t, MinuteAngle(t))>>
    [] layer = "drawSecondsHand" -> <<SecondAngle(t), SecondsSparkle(t, SecondAngle(t))>>
    [] layer = "drawCrystal" -> <<breathe(t), arTint(t)>>
    [] OTHER -> <<>>

\* The drawing operations of drawWatch() at instant t, for the offset and the
\* readiness flag its closure holds.
FrameOps(t, off, loadedFlag) ==
  [k \in 1 .. Len(drawWatchLayers) |->
     [layer |-> drawWatchLayers[k],
      draws |-> LayerBranch(drawWatchLayers[k], t, loadedFlag),
      args  |-> LayerArgs(drawWatchLayers[k], t, off)]]

\* The first frame after the draw effect ran. The effect sets canvas.width,
\* which resets the context; drawBatons leaves lineCap = "square" behind.
RenderFrame ==
  /\ render.frames = 0
  /\ render' = [render EXCEPT !.first = FrameOps(render.t, render.off, render.loaded),
                              !.capFirst = render.lineCap,
                              !.lineCap = "square",
                              !.frames = 1]
  /\ UNCHANGED <<componentVars, clock, moon, lookup, layers, hands, sidereal>>

\* The next frame, with the clock frozen at the same instant.
RenderFrameAgain ==
  /\ render.frames = 1
  /\ render' = [render EXCEPT !.second = FrameOps(render.t, render.off, render.loaded),
                              !.capSecond = render.lineCap,
                              !.lineCap = "square",
                              !.frames = 2]
  /\ UNCHANGED <<componentVars, clock, moon, lookup, layers, hands, sidereal>>

\* ------------------------------------------------------------ specifications
NoFrame == [chain |-> 0, off |-> 0, index |-> 0, moon |-> None, flag |-> FALSE, handle |-> "absent"]
NoClock == [hours |-> 0, minutes |-> 0, seconds |-> 0, ms |-> 0, g |-> 0, g24 |-> 0, drawn |-> 0]
NoMoon == [date |-> 0, age |-> 0, index |-> 0, prev |-> 0, frames |-> 0]
NoLookup == [age |-> 0, index |-> 0, later |-> 0, laterIndex |-> 0, done |-> 0]
NoLayers == [date |-> 0, off |-> 0, frame |-> 0, drawn |-> <<>>]
NoHands == [t |-> 0, second |-> 0, minute |-> 0, prevSecond |-> 0, prevMinute |-> 0, frames |-> 0]
NoSidereal == [halfDays |-> 0, raw |-> 0, angle |-> 0, frames |-> 0]
NoRender == [t |-> 0, off |-> 0, loaded |-> FALSE, lineCap |-> "butt", frames |-> 0,
             first |-> <<>>, second |-> <<>>, capFirst |-> "butt", capSecond |-> "butt"]

InitComponent ==
  /\ phase = "init"
  /\ gmtOffset = 0
  /\ moonImagesLoaded = FALSE
  /\ keys = [right |-> 0, left |-> 0]
  /\ fetched = [i \in Slots |-> "pending"]
  /\ blob = [i \in Slots |-> "none"]
  /\ urlsResolved = FALSE
  /\ images = [i \in Slots |-> "absent"]
  /\ loadedCount = 0
  /\ chain = 0
  /\ effOffset = 0
  /\ effLoaded = FALSE
  /\ id = 0
  /\ nextRaf = 1
  /\ pending = {}
  /\ lastFrame = NoFrame

InitPure ==
  /\ clock = NoClock
  /\ moon = NoMoon
  /\ lookup = NoLookup
  /\ layers = NoLayers
  /\ hands = NoHands
  /\ sidereal = NoSidereal
  /\ render = NoRender

Init ==
  /\ surface = "ok"
  /\ InitComponent
  /\ InitPure

Failures ==
  Cardinality({i \in Slots : fetched[i] = "failed"}) + Cardinality({i \in Slots : images[i] = "error"})

\* Responses arrive in request order.
InOrderFetch(i) == \A j \in Slots : j < i => fetched[j] # "pending"
InOrderDecode(i) == \A j \in Slots : j < i => images[j] # "loading"

Keys == {"ArrowRight", "ArrowLeft", "Enter"}
KeysHandled == keys.right + keys.left

Next ==
  \/ Mount
  \/ Animate
  \/ \E key \in Keys : KeysHandled < MaxKeys /\ KeyDown(key)
  \/ \E i \in Slots : InOrderFetch(i) /\ FetchOk(i)
  \/ \E i \in Slots : InOrderFetch(i) /\ Failures < MaxFailures /\ FetchFail(i)
  \/ UrlsResolved
  \/ \E i \in Slots : InOrderDecode(i) /\ ImgLoad(i)
  \/ \E i \in Slots : InOrderDecode(i) /\ Failures < MaxFailures /\ ImgError(i)
  \/ Unmount

Spec == Init /\ [][Next]_vars

\* The loader alone, with every order of arrival and any number of failures.
NextLoader ==
  \/ Mount
  \/ \E i \in Slots : FetchOk(i)
  \/ \E i \in Slots : FetchFail(i)
  \/ UrlsResolved
  \/ \E i \in Slots : ImgLoad(i)
  \/ \E i \in Slots : ImgError(i)
  \/ Unmount

SpecLoader == Init /\ [][NextLoader]_vars

\* Key handling alone, over long runs of arrow keys.
NextKeys ==
  \/ Mount
  \/ \E key \in Keys : KeysHandled < MaxKeyRun /\ KeyDown(key)

SpecKeys == Init /\ [][NextKeys]_vars

\* The GMT hour of one frame, for sampled clock readings and offsets.
InitClock ==
  /\ phase = "mounted"
  /\ surface = "ok"
  /\ gmtOffset \in (-MaxGmt) .. MaxGmt
  /\ moonImagesLoaded = FALSE
  /\ keys = [right |-> 0, left |-> 0]
  /\ fetched = [i \in Slots |-> "pending"]
  /\ blob = [i \in Slots |-> "none"]
  /\ urlsResolved = FALSE
  /\ images = [i \in Slots |-> "absent"]
  /\ loadedCount = 0
  /\ chain = 0
  /\ effOffset = 0
  /\ effLoaded = FALSE
  /\ id = 0
  /\ nextRaf = 1
  /\ pending = {}
  /\ lastFrame = NoFrame
  /\ clock \in [hours : {0, 1, 12, 23}, minutes : {0, 59}, seconds : {0, 59}, ms : {0, 999},
                g : {0}, g24 : {0}, drawn : {0}]
  /\ moon = NoMoon
  /\ lookup = NoLookup
  /\ layers = NoLayers
  /\ hands = NoHands
  /\ sidereal = NoSidereal
  /\ render = NoRender

NextClock == ClockFrame \/ ClockFrame24

SpecClock == InitClock /\ [][NextClock]_vars

\* The moon age of one frame, for sampled instants on both sides of the epoch.
MoonDates ==
  {k * 98437 : k \in (-MaxLunarSteps) .. MaxLunarSteps}
    \cup {-LUNAR_CYCLE, -1, 1, LUNAR_CYCLE - 1, LUNAR_CYCLE}
    \cup {1476000, 1478000}

InitMoon ==
  /\ surface = "ok"
  /\ InitComponent
  /\ clock = NoClock
  /\ lookup = NoLookup
  /\ layers = NoLayers
  /\ hands = NoHands
  /\ sidereal = NoSidereal
  /\ render = NoRender
  /\ moon \in [date : MoonDates, age : {0}, index : {0}, prev : {0}, frames : {0}]

NextMoon == MoonFrame \/ MoonFrameNextCycle

SpecMoon == InitMoon /\ [][NextMoon]_vars

\* The draw loop on a host with or without a canvas and a 2D context (loader idle).
InitSurface ==
  /\ surface \in {"ok", "nocanvas", "noctx"}
  /\ InitComponent
  /\ InitPure

NextSurface ==
  \/ Mount
  \/ Animate
  \/ \E key \in Keys : KeysHandled < MaxKeys /\ KeyDown(key)
  \/ Unmount

SpecSurface == InitSurface /\ [][NextSurface]_vars

\* The phase lookup, for sampled ages within one lunar cycle: the eight
\* thresholds, the grid point just below each, and evenly spaced ages.
PhaseAges ==
  {a \in {k * 73826 : k \in 0 .. MaxAgeSteps} : a < LUNAR_CYCLE}
    \cup {0, 184000, 738000, 923000, 1477000, 1661000, 2215000, 2399000}
    \cup {183999, 737999, 922999, 1476999, 1660999, 2214999, 2398999, LUNAR_CYCLE - 1}

InitPhase ==
  /\ surface = "ok"
  /\ InitComponent
  /\ clock = NoClock
  /\ moon = NoMoon
  /\ layers = NoLayers
  /\ hands = NoHands
  /\ sidereal = NoSidereal
  /\ render = NoRender
  /\ lookup \in [age : PhaseAges, index : {0}, later : {0}, laterIndex : {0}, done : {0}]

NextPhase ==
  \/ PhaseLookup
  \/ \E age \in PhaseAges : PhaseLookupLater(age)

SpecPhase == InitPhase /\ [][NextPhase]_vars

\* The statements of drawWatch, one drawing step at a time, for sampled
\* instants and GMT offsets.
InitLayers ==
  /\ surface = "ok"
  /\ InitComponent
  /\ clock = NoClock
  /\ moon = NoMoon
  /\ lookup = NoLookup
  /\ hands = NoHands
  /\ sidereal = NoSidereal
  /\ render = NoRender
  /\ layers \in [date : FrameDates, off : {-25, -1, 0, 1, 25}, frame : {1}, drawn : {<<>>}]

NextLayers == LayerStep \/ LayerNextFrame

SpecLayers == InitLayers /\ [][NextLayers]_vars

\* The hand values of two frames one second apart, for sampled instants of a
\* day and the instants around the wraps of seconds, minutes, hours and the day.
HandInstants ==
  {k * 1439983 : k \in 0 .. (MaxHandSteps - 1)}
    \cup {58999, 59000, 59001, 59999, 3539000, 3599000, 3599500, 3599999,
          43199000, 43199999, 86399000, 86399999}

InitHands ==
  /\ surface = "ok"
  /\ InitComponent
  /\ clock = NoClock
  /\ moon = NoMoon
  /\ lookup = NoLookup
  /\ layers = NoLayers
  /\ sidereal = NoSidereal
  /\ render = NoRender
  /\ hands \in [t : HandInstants, second : {0}, minute : {0}, prevSecond : {0},
                 prevMinute : {0}, frames : {0}]

NextHands == HandsFrame \/ HandsFrameOneSecondLater

SpecHands == InitHands /\ [][NextHands]_vars

\* getSiderealAngle for sampled instants before the Unix epoch, between it
\* and J2000 (half day 21915) and after J2000, and for instants whose GMST is
\* within the longitude of zero.
SiderealInstants ==
  {k * 1861 : k \in (-MaxSiderealSteps) .. MaxSiderealSteps}
    \cup {-1, 1, 21914, 21915, 21916}
    \cup {-22739, -1800, 404, 13261, 21710, 25751, 49261}

InitSidereal ==
  /\ surface = "ok"
  /\ InitComponent
  /\ clock = NoClock
  /\ moon = NoMoon
  /\ lookup = NoLookup
  /\ layers = NoLayers
  /\ hands = NoHands
  /\ sidereal \in [halfDays : SiderealInstants, raw : {0}, angle : {0}, frames : {0}]
  /\ render = NoRender

NextSidereal == SiderealFrame

SpecSidereal == InitSidereal /\ [][NextSidereal]_vars

\* Two frames at one frozen instant, for sampled instants, offsets and both
\* states of the moon-phase assets: none loaded, or all eight decoded and the
\* flag set before the draw effect ran.
RenderInstants ==
  {k * 7919003 : k \in 0 .. (MaxRenderSteps - 1)} \cup {59999, 3599999, 43199999, 86399999}

InitRender ==
  /\ phase = "mounted"
  /\ surface = "ok"
  /\ \E ready \in BOOLEAN, off \in {-1, 0, 1} :
       /\ gmtOffset = off
       /\ keys = [right |-> (IF off > 0 THEN off ELSE 0), left |-> (IF off < 0 THEN -off ELSE 0)]
       /\ moonImagesLoaded = ready
       /\ fetched = [i \in Slots |-> IF ready THEN "ok" ELSE "pending"]
       /\ blob = [i \in Slots |-> IF ready THEN "live" ELSE "none"]
       /\ urlsResolved = ready
       /\ images = [i \in Slots |-> IF ready THEN "complete" ELSE "absent"]
       /\ loadedCount = (IF ready THEN NumFiles ELSE 0)
       /\ effOffset = off
       /\ effLoaded = ready
       /\ render \in [t : RenderInstants, off : {off}, loaded : {ready}, lineCap : {"butt"},
                       frames : {0}, first : {<<>>}, second : {<<>>},
                       capFirst : {"butt"}, capSecond : {"butt"}]
  /\ chain = 0
  /\ id = 0
  /\ nextRaf = 1
  /\ pending = {}
  /\ lastFrame = NoFrame
  /\ clock = NoClock
  /\ moon = NoMoon
  /\ lookup = NoLookup
  /\ layers = NoLayers
  /\ hands = NoHands
  /\ sidereal = NoSidereal

NextRender == RenderFrame \/ RenderFrameAgain

SpecRender == InitRender /\ [][NextRender]_vars

\* ------------------------------------------------------------ properties
FrameDrawn == lastFrame.moon # None
SomeAssetFailed == \E i \in Slots : fetched[i] = "failed" \/ images[i] = "error"
LoaderQuiescent == urlsResolved /\ \A i \in Slots : images[i] # "loading"

\* C1: every frame drawn while the readiness flag is set draws the selected
\* moon-phase image, not the fallback fill, without any further input event.
C1_ReadinessReadEveryFrame ==
  (FrameDrawn /\ lastFrame.flag) => lastFrame.moon = "image"

\* C2: when some moon-phase image failed to load, a frame whose selected slot
\* holds a successfully loaded image still draws that image.
C2_FailureDegradesOneSlotOnly ==
  (FrameDrawn /\ SomeAssetFailed /\ lastFrame.handle = "complete") => lastFrame.moon = "image"

\* C3: the GMT hour computed in a frame lies in [0, 24), so the angle passed to
\* drawGMTHand lies in [0, 2*PI), for every offset and clock reading.
C3_GmtHourInRange ==
  clock.drawn >= 1 => (0 <= clock.g /\ clock.g < DayMs)

\* C4: at the same instant the GMT hand angle with offset k + 24 is identical
\* to the angle with offset k.
C4_GmtPeriod24 ==
  clock.drawn = 2 => clock.g24 = clock.g

\* C5: after unmount, once the loader's asynchronous sequence has run to its
\* end, no blob URL the loader created is left unrevoked.
C5_BlobUrlsReleased ==
  (phase = "unmounted" /\ LoaderQuiescent) => \A i \in Slots : blob[i] # "live"

\* C6: once the draw effect is torn down no animation frame stays pending and
\* no further frame is drawn or scheduled; every tick of the running loop
\* leaves exactly one pending frame, the one it has just requested.
C6_FrameDriverStops ==
  [][ /\ phase' = "unmounted" => pending' = {}
      /\ phase = "unmounted" => (nextRaf' = nextRaf /\ lastFrame' = lastFrame)
      /\ nextRaf' # nextRaf =>
            /\ nextRaf' = nextRaf + 1
            /\ pending' = {p \in pending' : p.raf = nextRaf}
            /\ Cardinality(pending') = 1 ]_vars

C6_Witness == phase = "unmounted" /\ nextRaf >= 3 /\ pending = {}

\* C7: at most one redraw callback chain is active, also across GMT key
\* events: every pending frame belongs to the current run of the draw effect.
C7_SingleChain ==
  /\ Cardinality(pending) <= 1
  /\ \A p \in pending : p.chain = chain /\ p.raf = id

C7_Witness == chain >= 3 /\ phase = "mounted" /\ pending # {} /\ nextRaf > chain + 1

\* C8: while the readiness flag is true, all 8 handles of the asset table are
\* present and decoded.
C8_ReadyImpliesAllDecoded ==
  moonImagesLoaded => \A i \in Slots : moonPhaseImagesRef[i] = "complete"

C8_Witness == moonImagesLoaded /\ loadedCount = NumFiles

\* C9: the GMT offset starts at 0 and always equals the number of ArrowRight
\* events minus the number of ArrowLeft events; other keys leave it unchanged.
C9_OffsetCountsArrows ==
  gmtOffset = keys.right - keys.left

C9_Witness == keys.right = 2 /\ keys.left = 1 /\ gmtOffset = 1

\* C10: the moon age of a frame lies in [0, LUNAR_CYCLE), also before the
\* reference epoch, and equals the moon age one lunar period earlier.
C10_MoonAgeRangeAndPeriod ==
  /\ moon.frames >= 1 => (0 <= moon.age /\ moon.age < LUNAR_CYCLE)
  /\ moon.frames = 2 => moon.age = moon.prev

C10_Witness == moon.frames = 2 /\ moon.date < 0 /\ moon.age > 0

\* C13: without a canvas or a 2D drawing context nothing is ever drawn and no
\* animation frame is ever requested, whatever keys are pressed.
C13_NoSurfaceNoFrames ==
  surface # "ok" => (lastFrame = NoFrame /\ pending = {} /\ nextRaf = 1 /\ id = 0)

C13_Witness ==
  surface = "noctx" /\ phase = "mounted" /\ gmtOffset # 0 /\ effOffset = gmtOffset /\ chain >= 2

\* The boundary ages of the phase buckets, 0, 1.84, 7.38, ... 23.99 days.
PhaseBoundaries == <<0, 184000, 738000, 923000, 1477000, 1661000, 2215000, 2399000>>

\* C11: the phase index lies in 0..7; boundary age number i (0, 1.84, 7.38,
\* 9.23, 14.77, 16.61, 22.15, 23.99 days) maps to index i and the age just
\* below it to index i - 1; an age that is not smaller never gets a smaller index.
C11_PhaseIndexStepFunction ==
  /\ lookup.done >= 1 =>
        /\ lookup.index \in 0 .. 7
        /\ \A i \in 1 .. 8 :
              /\ lookup.age = PhaseBoundaries[i] => lookup.index = i - 1
              /\ (i > 1 /\ lookup.age = PhaseBoundaries[i] - 1) => lookup.index = i - 2
  /\ lookup.done = 2 => lookup.index <= lookup.laterIndex

C11_Witness ==
  lookup.done = 2 /\ lookup.age = 1476999 /\ lookup.index = 3 /\ lookup.later = 1477000
    /\ lookup.laterIndex = 4

\* C12: the slot drawMoon selects is the number of phase thresholds that the
\* instant's moon age has reached: slot 0 (New Moon) at the reference epoch,
\* where the age is 0, slot 3 (Waxing Gibbous) 14.76 days after it and slot 4
\* (Full Moon) 14.78 days after it.
C12_SlotFollowsMoonAge ==
  moon.frames >= 1 =>
    /\ moon.index = Cardinality({i \in 2 .. 8 : PhaseBoundaries[i] <= moon.age})
    /\ moon.date = 0 =>
          (moon.age = 0 /\ moon.index = 0 /\ moonPhaseFiles[moon.index + 1] = "New_Moon.svg")
    /\ moon.date = 1476000 =>
          (moon.index = 3 /\ moonPhaseFiles[moon.index + 1] = "Waxing_Gibbous.svg")
    /\ moon.date = 1478000 =>
          (moon.index = 4 /\ moonPhaseFiles[moon.index + 1] = "Full_Moon.svg")

C12_Witness == moon.frames = 1 /\ moon.date = 1478000 /\ moon.index = 4

\* C14: a frame drawn while the moon images are not (or never) all loaded
\* fills the aperture with the fallback colour and does not fail, and while
\* the component is mounted the next frame is always requested, whatever the
\* loader has done so far.
C14_LoopIndependentOfLoader ==
  /\ (FrameDrawn /\ ~lastFrame.flag) => lastFrame.moon = "fallback"
  /\ lastFrame.moon # "throws"
  /\ phase = "mounted" => \E p \in pending : p.raf = id /\ p.raf = nextRaf - 1

C14_Witness ==
  /\ phase = "mounted" /\ nextRaf >= 4 /\ pending # {}
  /\ SomeAssetFailed /\ LoaderQuiescent /\ ~moonImagesLoaded
  /\ lastFrame.handle = "complete" /\ lastFrame.moon = "fallback"

\* C15: a frame whose selected handle is missing, still loading or broken
\* fills the aperture with the fallback colour, and every frame draws either
\* the image or the fallback fill.
C15_FallbackWhenHandleNotReady ==
  FrameDrawn =>
    /\ lastFrame.handle # "complete" => lastFrame.moon = "fallback"
    /\ lastFrame.moon \in {"image", "fallback"}

C15_Witness ==
  urlsResolved /\ lastFrame.handle = "loading" /\ lastFrame.moon = "fallback" /\ chain >= 2

FrameComplete == Len(layers.drawn) > 0 /\ layers.drawn[Len(layers.drawn)] = "drawCrystal"
Position(layer) == CHOOSE i \in 1 .. Len(layers.drawn) : layers.drawn[i] = layer
Drawn(layer) == \E i \in 1 .. Len(layers.drawn) : layers.drawn[i] = layer
TopLayers ==
  <<"drawGMTHand", "drawBreguetHand:hour", "drawBreguetHand:minute", "drawSecondsHand",
    "centerPin", "drawCase", "drawCrystal">>
IsTopLayer(layer) == \E k \in 1 .. Len(TopLayers) : TopLayers[k] = layer

\* C16: within a frame no drawing step is repeated; the GMT hand, hour hand,
\* minute hand, seconds hand, center pivot, case overlay and crystal effect
\* are drawn in this order, after every dial, text and complication layer,
\* and a finished frame ends with exactly these seven, the crystal effect last.
C16_HandsAndTopLayersOrder ==
  /\ \A i, j \in 1 .. Len(layers.drawn) : i < j => layers.drawn[i] # layers.drawn[j]
  /\ \A i, j \in 1 .. Len(layers.drawn) :
        (i < j /\ IsTopLayer(layers.drawn[i])) => IsTopLayer(layers.drawn[j])
  /\ \A k, l \in 1 .. Len(TopLayers) :
        (k < l /\ Drawn(TopLayers[l])) =>
           (Drawn(TopLayers[k]) /\ Position(TopLayers[k]) < Position(TopLayers[l]))
  /\ Drawn("drawCrystal") =>
        /\ Len(layers.drawn) >= 7
        /\ SubSeq(layers.drawn, Len(layers.drawn) - 6, Len(layers.drawn)) = TopLayers
        /\ \A layer \in {"dial", "drawMinuteTrack", "drawBatons", "numerals", "brandText",
                          "drawSwissMade", "drawMoon", "drawSidereal", "drawDate"} :
              Drawn(layer) /\ Position(layer) < Position("drawGMTHand")

C16_Witness == FrameComplete /\ layers.frame = 2 /\ Len(layers.drawn) = 17

\* C17 as claimed: in a finished frame the Swiss-made marking comes after the
\* moon subdial, the sidereal subdial and the date window, and before the hands.
C17_SwissMadeAfterComplications ==
  FrameComplete =>
    /\ Position("drawSwissMade") > Position("drawMoon")
    /\ Position("drawSwissMade") > Position("drawSidereal")
    /\ Position("drawSwissMade") > Position("drawDate")
    /\ Position("drawSwissMade") < Position("drawGMTHand")

\* C17 as amended: in a finished frame the Swiss-made marking comes right after
\* the brand text and before the moon subdial, the sidereal subdial and the
\* date window, which all come before the hands.
C17_SwissMadeBeforeComplications ==
  FrameComplete =>
    /\ Position("drawSwissMade") = Position("brandText") + 1
    /\ Position("drawSwissMade") < Position("drawMoon")
    /\ Position("drawMoon") < Position("drawSidereal")
    /\ Position("drawSidereal") < Position("drawDate")
    /\ Position("drawDate") < Position("drawGMTHand")

C17_Witness == FrameComplete /\ Drawn("drawSwissMade") /\ Drawn("drawDate") /\ layers.off # 0

\* C18: no frame contains a call of the guilloche routine, at any drawing
\* step, instant or GMT offset.
C18_GuillocheNeverDrawn ==
  \A i \in 1 .. Len(layers.drawn) : layers.drawn[i] # "drawGuilloche"

C18_Witness == FrameComplete /\ Drawn("dial") /\ Drawn("drawMinuteTrack") /\ layers.frame = 1

\* C19: between two frames one second apart the second-hand value advances by
\* 1000/60000 of a turn (2 PI / 60) and the minute-hand value by 1000/3600000
\* of a turn (2 PI / 3600), both modulo one turn, also across the wraps of the
\* seconds and of the minutes.
C19_HandAngleContinuity ==
  hands.frames = 2 =>
    /\ (hands.second - hands.prevSecond - 1000) % 60000 = 0
    /\ (hands.minute - hands.prevMinute - 1000) % 3600000 = 0
    /\ hands.second \in 0 .. 59999
    /\ hands.minute \in 0 .. 3599999

C19_Witness ==
  /\ hands.frames = 2
  /\ hands.second < hands.prevSecond
  /\ hands.minute < hands.prevMinute

\* C20: for every instant, before or after J2000 and the Unix epoch, the angle
\* getSiderealAngle returns is at least 0 and less than one turn (36000 units
\* of 1/100 degree), also when GMST plus the longitude is negative.
C20_SiderealAngleNormalized ==
  sidereal.frames = 1 => (sidereal.angle >= 0 /\ sidereal.angle < 36000)

C20_Witness ==
  /\ sidereal.frames = 1
  /\ sidereal.halfDays < 0
  /\ sidereal.raw < 0
  /\ sidereal.angle > 35980

\* C22: every frame is drawn with the current GMT offset and every pending
\* animation frame will be: once a key event has changed the offset, no frame
\* uses the old value.
C22_TickUsesCurrentOffset ==
  /\ FrameDrawn => lastFrame.off = gmtOffset
  /\ \A p \in pending : p.off = gmtOffset

\* A frame of the loop the last key event started, drawn by animate() after the
\* readiness flag was set (the effect body ran before that).
C22_Witness ==
  /\ phase = "mounted" /\ gmtOffset # 0 /\ chain >= 2
  /\ lastFrame.chain = chain /\ lastFrame.off = gmtOffset
  /\ lastFrame.flag /\ ~effLoaded

====
